---- MODULE Spec2Model ----
(***************************************************************************)
(* Playfair cipher (src/src/lib.rs): the Keyword construction, the 5x5     *)
(* matrix, the bigram segmentation and the encrypt / decrypt substitution. *)
(*                                                                         *)
(* A char is its Unicode code point, a String is a sequence of chars.      *)
(* Rust's String::len, String::insert and char_indices count UTF-8 bytes   *)
(* while chars().nth counts chars; both are modelled as the code uses them.*)
(* A panic (failed unwrap, index out of range, insert off a char boundary) *)
(* sets fault and ends the program.                                        *)
(***************************************************************************)
EXTENDS Integers, Sequences, FiniteSets, TLC

VARIABLES
    keyword,   \* Playfair.keyword: the Keyword's string
    matrix,    \* Playfair.matrix: matrix[x][y], x, y in 0..4
    fault,     \* TRUE once a call has panicked
    seed,      \* caller: the argument of the last Playfair::new / update_keyword
    rekeyed,   \* caller: TRUE once update_keyword has returned
    msg,       \* caller: the message it holds (tests, main.rs)
    op,        \* caller: the last call made
    arg,       \* caller: the text argument of the last call
    ret        \* caller: the value the last call returned

vars == <<keyword, matrix, fault, seed, rekeyed, msg, op, arg, ret>>

----------------------------------------------------------------------------
(* Bounds and input alphabets *)

MaxSeedLen == 2
MaxTextLen == 4

\* 'i', 'j', 'X', '!', U+00E9 (a two-byte alphabetic char)
SeedChars == {105, 106, 88, 33, 233}
\* 'c', 'i', 'j', 'x', 'C', '!', U+00E9
TextChars == {99, 105, 106, 120, 67, 33, 233}

StringsOver(chars, n) == UNION {[1..k -> chars] : k \in 0..n}

Seeds == StringsOver(SeedChars, MaxSeedLen)
Texts == StringsOver(TextChars, MaxTextLen)

\* "", "!", "ci", "ij", "Xx", "cc", two U+00E9
CallTexts == {<<>>, <<33>>, <<99, 105>>, <<105, 106>>, <<88, 120>>,
              <<99, 99>>, <<233, 233>>}
\* "", "i", "x", "xi": between them the three letters of TextChars meet in
\* every case of the substitution
KeySeeds == {<<>>, <<105>>, <<120>>, <<120, 105>>}
\* 'c', 'i', 'j', 'x'
LookupChars == {99, 105, 106, 120}

----------------------------------------------------------------------------
(* chars and strings *)

CharI == 105
CharJ == 106
CharX == 120
KeywordLen == 25
Dim == 5

\* char::is_alphabetic on the code points below U+0100
is_alphabetic(c) ==
    \/ c \in 65..90
    \/ c \in 97..122
    \/ c \in {170, 181, 186}
    \/ c \in 192..214
    \/ c \in 216..246
    \/ c \in 248..255

\* char::to_lowercase on the code points below U+0100
to_lowercase_char(c) ==
    IF c \in 65..90 \/ c \in 192..214 \/ c \in 216..222 THEN c + 32 ELSE c

to_lowercase(s) == [k \in 1..Len(s) |-> to_lowercase_char(s[k])]

\* char::len_utf8
len_utf8(c) == IF c < 128 THEN 1 ELSE IF c < 2048 THEN 2 ELSE IF c < 65536 THEN 3 ELSE 4

\* the bytes of the first k chars
RECURSIVE len_upto(_, _)
len_upto(s, k) == IF k = 0 THEN 0 ELSE len_utf8(s[k]) + len_upto(s, k - 1)

\* String::len: the length in bytes
len(s) == len_upto(s, Len(s))

\* the byte offset of the k-th char (k from 1), as char_indices yields it
byte_offset(s, k) == len_upto(s, k - 1)

\* the byte offsets of the chars of s from the k-th on, the k-th at byte off
RECURSIVE offsets_from(_, _, _)
offsets_from(s, k, off) ==
    IF k > Len(s) THEN <<>>
    ELSE <<off>> \o offsets_from(s, k + 1, off + len_utf8(s[k]))

\* the byte offsets char_indices pairs the chars with
char_indices(s) == offsets_from(s, 1, 0)

\* str::is_char_boundary
is_char_boundary(s, b) ==
    \/ b = len(s)
    \/ \E k \in 1..Len(s) : byte_offset(s, k) = b

\* String::insert at a byte index that is a char boundary
insert(s, b, c) ==
    LET k == Cardinality({n \in 1..Len(s) : byte_offset(s, n) < b})
    IN  SubSeq(s, 1, k) \o <<c>> \o SubSeq(s, k + 1, Len(s))

\* str::find(char).is_some()
contains(s, c) == \E k \in 1..Len(s) : s[k] = c

----------------------------------------------------------------------------
(* Keyword *)

\* the alphabet with 'i' left out instead of 'j'
AlphabetWithJ ==
    <<97, 98, 99, 100, 101, 102, 103, 104, 106, 107, 108, 109, 110,
      111, 112, 113, 114, 115, 116, 117, 118, 119, 120, 121, 122>>

\* "abcdefghiklmnopqrstuvwxyz"
Alphabet ==
    <<97, 98, 99, 100, 101, 102, 103, 104, 105, 107, 108, 109, 110,
      111, 112, 113, 114, 115, 116, 117, 118, 119, 120, 121, 122>>

\* .filter(|c| c.is_alphabetic() && *c != 'j')
keyword_filter(c) == is_alphabetic(c) /\ c # CharJ

\* the lowercased, filtered input followed by the alphabet
parsed(initial) == SelectSeq(to_lowercase(initial), keyword_filter) \o Alphabet

\* for c in parsed.chars(): push c unless the buffer holds it already
RECURSIVE fill_pass(_, _, _)
fill_pass(p, k, buffer) ==
    IF k > Len(p) THEN buffer
    ELSE fill_pass(p, k + 1,
                   IF contains(buffer, p[k]) THEN buffer ELSE Append(buffer, p[k]))

\* while buffer.len() < 25 { one pass }: a pass that adds nothing while the
\* buffer is still short repeats for ever (hang)
RECURSIVE fill_while(_, _)
fill_while(p, buffer) ==
    IF len(buffer) < KeywordLen
    THEN LET next == fill_pass(p, 1, buffer)
         IN  IF next = buffer THEN [hang |-> TRUE, buf |-> buffer]
             ELSE fill_while(p, next)
    ELSE [hang |-> FALSE, buf |-> buffer]

Keyword_new(initial) == fill_while(parsed(initial), <<>>)

NullMatrix == [x \in 0..(Dim - 1) |-> [y \in 0..(Dim - 1) |-> 0]]

\* mtx[x][y] = chr indexes out of range when y = idx / 5 reaches 5
to_matrix_panics(kw) ==
    Len(kw) > 0 /\ byte_offset(kw, Len(kw)) \div Dim >= Dim

\* the matrix filled the other way round: mtx[y][x] = chr
to_matrix_row_major(kw) ==
    LET idx == char_indices(kw)
    IN  [y \in 0..(Dim - 1) |-> [x \in 0..(Dim - 1) |->
            LET at == {k \in 1..Len(kw) : idx[k] = Dim * y + x}
            IN  IF at = {} THEN 0 ELSE kw[CHOOSE k \in at : TRUE]]]

\* x = idx % 5, y = idx / 5, mtx[x][y] = chr, idx the byte offset of chr;
\* the cells no char lands on keep '\0'
to_matrix(kw) ==
    LET idx == char_indices(kw)
    IN  [x \in 0..(Dim - 1) |-> [y \in 0..(Dim - 1) |->
            LET at == {k \in 1..Len(kw) : idx[k] = Dim * y + x}
            IN  IF at = {} THEN 0 ELSE kw[CHOOSE k \in at : TRUE]]]

----------------------------------------------------------------------------
(* Playfair: lookup and segmentation *)

Positions == (0..(Dim - 1)) \X (0..(Dim - 1))

hits(m, c) == {p \in Positions : m[p[1]][p[2]] = c}

\* the first match of the scan, idx outermost
first_hit(m, c) ==
    LET h == hits(m, c)
    IN  CHOOSE p \in h : \A q \in h : p[1] < q[1] \/ (p[1] = q[1] /\ p[2] <= q[2])

\* the lookup recurses without end when neither the char nor 'i' is there
lookup_diverges(m, c) == hits(m, c) = {} /\ hits(m, CharI) = {}

\* (idx, jdx) of the first cell equal to the char, else the result for 'i';
\* <<Dim, Dim>> stands for the call that never returns
get_position_in_matrix(m, c) ==
    IF hits(m, c) # {} THEN first_hit(m, c)
    ELSE IF hits(m, CharI) # {} THEN first_hit(m, CharI)
    ELSE <<Dim, Dim>>

\* the loop for idx in (0..input.len()).step_by(2): n is input.len() taken
\* once, in bytes, before the loop; idx counts chars in nth and bytes in insert
RECURSIVE split_loop(_, _, _)
split_loop(s, idx, n) ==
    IF idx >= n THEN [fault |-> FALSE, str |-> s]
    ELSE IF idx >= Len(s) THEN [fault |-> TRUE, str |-> s]
    ELSE IF idx + 1 < Len(s) /\ s[idx + 1] = s[idx + 2]
         THEN IF is_char_boundary(s, idx + 1)
              THEN split_loop(insert(s, idx + 1, CharX), idx + 2, n)
              ELSE [fault |-> TRUE, str |-> s]
         ELSE split_loop(s, idx + 2, n)

\* input.chars().array_chunks::<2>(): a trailing single char is dropped
array_chunks(s) == [k \in 1..(Len(s) \div 2) |-> <<s[2 * k - 1], s[2 * k]>>]

bigramify(input) ==
    LET s0 == SelectSeq(to_lowercase(input), is_alphabetic)
        r  == split_loop(s0, 0, len(s0))
        s1 == IF len(r.str) % 2 # 0 THEN Append(r.str, CharX) ELSE r.str
    IN  IF r.fault THEN [fault |-> TRUE, out |-> <<>>]
        ELSE [fault |-> FALSE, out |-> array_chunks(s1)]

----------------------------------------------------------------------------
(* Cipher for Playfair *)

\* the substitution with the two shift cases tested the other way round
encrypt_bigram_swapped(m, bigram) ==
    LET a_pos == get_position_in_matrix(m, bigram[1])
        b_pos == get_position_in_matrix(m, bigram[2])
    IN  IF a_pos[2] = b_pos[2]
        THEN <<m[(a_pos[1] + 1) % Dim][a_pos[2]], m[(b_pos[1] + 1) % Dim][b_pos[2]]>>
        ELSE IF a_pos[1] = b_pos[1]
        THEN <<m[a_pos[1]][(a_pos[2] + 1) % Dim], m[b_pos[1]][(b_pos[2] + 1) % Dim]>>
        ELSE <<m[b_pos[1]][a_pos[2]], m[a_pos[1]][b_pos[2]]>>

\* the body of encrypt's loop: the two chars pushed for one bigram
encrypt_bigram(m, bigram) ==
    LET a_pos == get_position_in_matrix(m, bigram[1])
        b_pos == get_position_in_matrix(m, bigram[2])
    IN  IF a_pos[1] = b_pos[1]
        THEN <<m[a_pos[1]][(a_pos[2] + 1) % Dim], m[b_pos[1]][(b_pos[2] + 1) % Dim]>>
        ELSE IF a_pos[2] = b_pos[2]
        THEN <<m[(a_pos[1] + 1) % Dim][a_pos[2]], m[(b_pos[1] + 1) % Dim][b_pos[2]]>>
        ELSE <<m[b_pos[1]][a_pos[2]], m[a_pos[1]][b_pos[2]]>>

\* a subtraction that stops at 0 instead of wrapping to 4
saturating_sub(v) == IF v = 0 THEN 0 ELSE v - 1

\* v.checked_sub(1).unwrap_or(4)
checked_sub_unwrap_or_4(v) == IF v = 0 THEN 4 ELSE v - 1

\* the body of decrypt's loop
decrypt_bigram(m, bigram) ==
    LET a_pos == get_position_in_matrix(m, bigram[1])
        b_pos == get_position_in_matrix(m, bigram[2])
    IN  IF a_pos[1] = b_pos[1]
        THEN <<m[a_pos[1]][checked_sub_unwrap_or_4(a_pos[2])],
               m[b_pos[1]][checked_sub_unwrap_or_4(b_pos[2])]>>
        ELSE IF a_pos[2] = b_pos[2]
        THEN <<m[checked_sub_unwrap_or_4(a_pos[1])][a_pos[2]],
               m[checked_sub_unwrap_or_4(b_pos[1])][b_pos[2]]>>
        ELSE <<m[b_pos[1]][a_pos[2]], m[a_pos[1]][b_pos[2]]>>

\* the chars of the pairs in order, as the loop pushes them to the buffer
RECURSIVE concat_pairs(_)
concat_pairs(ps) == IF ps = <<>> THEN <<>> ELSE Head(ps) \o concat_pairs(Tail(ps))

\* some lookup of the bigrams never returns
bigrams_diverge(m, bigrams) ==
    \E k \in 1..Len(bigrams) :
        lookup_diverges(m, bigrams[k][1]) \/ lookup_diverges(m, bigrams[k][2])

encrypt(m, plaintext) ==
    LET b == bigramify(plaintext)
    IN  IF b.fault \/ bigrams_diverge(m, b.out) THEN [fault |-> TRUE, out |-> <<>>]
        ELSE [fault |-> FALSE,
              out |-> concat_pairs([k \in 1..Len(b.out) |-> encrypt_bigram(m, b.out[k])])]

decrypt(m, ciphertext) ==
    LET b == bigramify(ciphertext)
    IN  IF b.fault \/ bigrams_diverge(m, b.out) THEN [fault |-> TRUE, out |-> <<>>]
        ELSE [fault |-> FALSE,
              out |-> concat_pairs([k \in 1..Len(b.out) |-> decrypt_bigram(m, b.out[k])])]

----------------------------------------------------------------------------
(* The calls *)

\* the object Playfair::new(kw) returns, if it returns
Playfair_new(kw) ==
    LET k == Keyword_new(kw)
        failed == k.hang \/ to_matrix_panics(k.buf)
    IN  /\ fault = failed
        /\ keyword = IF failed THEN <<>> ELSE k.buf
        /\ matrix = IF failed THEN NullMatrix ELSE to_matrix(k.buf)

\* the caller right after Playfair::new(kw), holding the message m
caller_new(kw, m) ==
    /\ seed = kw
    /\ rekeyed = FALSE
    /\ msg = m
    /\ op = "new"
    /\ arg = <<>>
    /\ ret = <<>>

\* Keyword::new and to_matrix of every seed a caller passes, evaluated once
\* (@@ makes the table an explicit function)
key_table ==
    [s \in Seeds |->
        LET k == Keyword_new(s)
        IN  [kw |-> k,
             panics |-> to_matrix_panics(k.buf),
             mx |-> IF k.hang \/ to_matrix_panics(k.buf) THEN NullMatrix
                    ELSE to_matrix(k.buf)]] @@ <<>>

\* a re-keying that stores the new keyword and forgets the matrix
update_keyword_stale_matrix(kw) ==
    /\ ~fault
    /\ seed' = kw
    /\ op' = "update_keyword"
    /\ arg' = <<>>
    /\ ret' = <<>>
    /\ UNCHANGED msg
    /\ LET kw_new == key_table[kw].kw
       IN  IF kw_new.hang \/ key_table[kw].panics
           THEN fault' = TRUE /\ UNCHANGED <<keyword, matrix, rekeyed>>
           ELSE /\ fault' = FALSE
                /\ rekeyed' = TRUE
                /\ keyword' = kw_new.buf
                /\ UNCHANGED matrix

update_keyword(kw) ==
    /\ ~fault
    /\ seed' = kw
    /\ op' = "update_keyword"
    /\ arg' = <<>>
    /\ ret' = <<>>
    /\ UNCHANGED msg
    /\ LET kw_new == key_table[kw].kw
           mx == key_table[kw].mx
       IN  IF kw_new.hang \/ key_table[kw].panics
           THEN fault' = TRUE /\ UNCHANGED <<keyword, matrix, rekeyed>>
           ELSE /\ fault' = FALSE
                /\ rekeyed' = TRUE
                /\ keyword' = kw_new.buf
                /\ matrix' = mx

\* pf.keyword()
keyword_call ==
    /\ ~fault
    /\ op' = "keyword"
    /\ arg' = <<>>
    /\ ret' = keyword
    /\ UNCHANGED <<keyword, matrix, fault, seed, rekeyed, msg>>

\* pf.encrypt(text)
encrypt_call(text) ==
    /\ ~fault
    /\ op' = "encrypt"
    /\ arg' = text
    /\ LET r == encrypt(matrix, text)
       IN  ret' = r.out /\ fault' = r.fault
    /\ UNCHANGED <<keyword, matrix, seed, rekeyed, msg>>

\* pf.decrypt(text)
decrypt_call(text) ==
    /\ ~fault
    /\ op' = "decrypt"
    /\ arg' = text
    /\ LET r == decrypt(matrix, text)
       IN  ret' = r.out /\ fault' = r.fault
    /\ UNCHANGED <<keyword, matrix, seed, rekeyed, msg>>

\* pf.decrypt(enc.as_str()) on the ciphertext the encryption of msg returned
decrypt_encrypted ==
    /\ ~fault
    /\ op = "encrypt"
    /\ arg = msg
    /\ op' = "decrypt_encrypted"
    /\ arg' = ret
    /\ LET r == decrypt(matrix, ret)
       IN  ret' = r.out /\ fault' = r.fault
    /\ UNCHANGED <<keyword, matrix, seed, rekeyed, msg>>

\* Playfair::bigramify(text), as the unit tests call it
bigramify_call(text) ==
    /\ ~fault
    /\ op' = "bigramify"
    /\ arg' = text
    /\ LET r == bigramify(text)
       IN  ret' = r.out /\ fault' = r.fault
    /\ UNCHANGED <<keyword, matrix, seed, rekeyed, msg>>

\* pf.get_position_in_matrix(&c), as the unit tests call it
get_position_call(c) ==
    /\ ~fault
    /\ op' = "get_position_in_matrix"
    /\ arg' = <<c>>
    /\ ret' = get_position_in_matrix(matrix, c)
    /\ fault' = lookup_diverges(matrix, c)
    /\ UNCHANGED <<keyword, matrix, seed, rekeyed, msg>>

----------------------------------------------------------------------------
(* Spec: one Playfair object, created, re-keyed and used by its caller *)

Init == \E kw \in Seeds : Playfair_new(kw) /\ caller_new(kw, <<>>)

Next ==
    \/ \E kw \in Seeds : update_keyword(kw)
    \/ keyword_call
    \/ \E t \in CallTexts : encrypt_call(t)
    \/ \E t \in CallTexts : decrypt_call(t)
    \/ \E c \in LookupChars : get_position_call(c)

Spec == Init /\ [][Next]_vars

(* SpecCipher: a key and a message, segmented, encrypted, decrypted and sent
   through the round trip, as tests/playfair_tests.rs and main.rs do *)

InitCipher == \E kw \in KeySeeds : Playfair_new(kw) /\ \E m \in Texts : caller_new(kw, m)

NextCipher ==
    \/ op = "new" /\ bigramify_call(msg)
    \/ op = "new" /\ encrypt_call(msg)
    \/ op = "new" /\ decrypt_call(msg)
    \/ decrypt_encrypted

SpecCipher == InitCipher /\ [][NextCipher]_vars

----------------------------------------------------------------------------
(* Properties of Spec *)

\* the 25 symbols: 'a'..'z' without 'j'
Universe == (97..122) \ {CharJ}

\* 'j' stands for 'i'
canonical(c) == IF c = CharJ THEN CharI ELSE c

merge_j(s) == [k \in 1..Len(s) |-> canonical(s[k])]

occurrences(s, c) == Cardinality({k \in 1..Len(s) : s[k] = c})

\* the zero-based index of the first c in s
index_of(s, c) == (CHOOSE k \in 1..Len(s) : s[k] = c /\ \A n \in 1..(k - 1) : s[n] # c) - 1

\* C1: whenever a Playfair object exists, after new and after every
\* update_keyword, its keyword has exactly 25 symbols and holds each of the
\* 25 symbols of the universe exactly once, and so does its matrix.
C1_KeywordIsPermutation ==
    ~fault =>
        /\ Len(keyword) = KeywordLen
        /\ \A c \in Universe : occurrences(keyword, c) = 1
        /\ \A c \in Universe : Cardinality(hits(matrix, c)) = 1

\* update_keyword("jX") has returned: the keyword starts "xa"
C1_Witness ==
    /\ ~fault
    /\ op = "update_keyword"
    /\ seed = <<106, 88>>
    /\ keyword[1] = CharX
    /\ keyword[2] = 97

\* C4: once update_keyword(s) has returned, the keyword and the matrix are
\* those of a fresh Playfair::new(s), and keyword(), encrypt and decrypt
\* return what the fresh object returns for the same argument; encrypt and
\* decrypt leave the key in place.
C4_RekeyNoCarryOver ==
    (rekeyed /\ ~fault) =>
        LET fresh == Keyword_new(seed).buf
            fresh_matrix == to_matrix(fresh)
        IN  /\ keyword = fresh
            /\ matrix = fresh_matrix
            /\ op = "keyword" => ret = fresh
            /\ op = "encrypt" => ret = encrypt(fresh_matrix, arg).out
            /\ op = "decrypt" => ret = decrypt(fresh_matrix, arg).out

\* encrypt("ci") after a re-keying with "X"
C4_Witness ==
    /\ rekeyed
    /\ ~fault
    /\ op = "encrypt"
    /\ seed = <<88>>
    /\ arg = <<99, CharI>>
    /\ Len(ret) = 2

\* C6: no call ever faults, and a text without alphabetic chars gives the
\* empty output.
C6_Totality ==
    /\ ~fault
    /\ (op \in {"encrypt", "decrypt"} /\ \A k \in 1..Len(arg) : ~is_alphabetic(arg[k]))
           => ret = <<>>

\* C8: the keyword of a seed is the keyword of the seed with every 'j'
\* replaced by 'i'.
C8_SeedMergesJ ==
    ~fault => keyword = Keyword_new(merge_j(seed)).buf

\* C10: for every letter c of 'a'..'z' the lookup returns (n % 5, n / 5), n
\* the index in the keyword of c (of 'i' for 'j'); both components are in
\* 0..4 and the matrix holds c (or 'i') there; so 'i' and 'j' share a position.
C10_LookupMatchesLayout ==
    ~fault =>
        /\ \A c \in 97..122 :
               LET n == index_of(keyword, canonical(c))
                   pos == get_position_in_matrix(matrix, c)
               IN  /\ ~lookup_diverges(matrix, c)
                   /\ pos = <<n % Dim, n \div Dim>>
                   /\ pos[1] \in 0..(Dim - 1)
                   /\ pos[2] \in 0..(Dim - 1)
                   /\ matrix[pos[1]][pos[2]] = canonical(c)
        /\ op = "get_position_in_matrix" =>
               LET n == index_of(keyword, canonical(arg[1]))
               IN  ret = <<n % Dim, n \div Dim>>

\* the lookup of 'j' under the key "Xi" returns the position of 'i', (1, 0)
C10_Witness ==
    /\ ~fault
    /\ op = "get_position_in_matrix"
    /\ seed = <<88, CharI>>
    /\ arg = <<CharJ>>
    /\ ret = <<1, 0>>

----------------------------------------------------------------------------
(* Properties of SpecCipher *)

is_ascii(s) == \A k \in 1..Len(s) : s[k] < 128

\* the text as the segmentation first reduces it: lowercased, letters only
letters(s) == SelectSeq(to_lowercase(s), is_alphabetic)

no_adjacent_equal(s) == \A k \in 1..(Len(s) - 1) : s[k] # s[k + 1]

\* the reference segmentation: pairs (0,1), (2,3), ... of the growing
\* sequence up to its current end, an 'x' after the first of two equal symbols
RECURSIVE reference_split(_, _)
reference_split(s, idx) ==
    IF idx + 2 > Len(s) THEN s
    ELSE IF s[idx + 1] = s[idx + 2]
         THEN reference_split(SubSeq(s, 1, idx + 1) \o <<CharX>> \o SubSeq(s, idx + 2, Len(s)),
                              idx + 2)
         ELSE reference_split(s, idx + 2)

reference_bigrams(text) ==
    LET s == reference_split(letters(text), 0)
        padded == IF Len(s) % 2 # 0 THEN Append(s, CharX) ELSE s
    IN  [k \in 1..(Len(padded) \div 2) |-> <<padded[2 * k - 1], padded[2 * k]>>]

\* C7, on the ASCII texts, where a letter is one byte: bigramify returns
\* the reference segmentation, so no pair of equal symbols is left unsplit.
C7_SegmentationIsReference ==
    (op = "bigramify" /\ is_ascii(arg)) =>
        /\ ~fault
        /\ ret = reference_bigrams(arg)

\* the precondition of C2 as stated: letters only, even length, no 'j', no
\* two equal neighbours
qualified_as_stated(p) ==
    /\ \A k \in 1..Len(p) : is_alphabetic(p[k]) /\ p[k] # CharJ
    /\ Len(p) % 2 = 0
    /\ no_adjacent_equal(p)

\* the same over the lowercase letters 'a'..'z'
qualified_lowercase(p) ==
    /\ \A k \in 1..Len(p) : p[k] \in Universe
    /\ Len(p) % 2 = 0
    /\ no_adjacent_equal(p)

\* the round trip of msg has returned msg
round_trip_exact ==
    /\ (op = "encrypt" /\ arg = msg) => ~fault
    /\ op = "decrypt_encrypted" => (~fault /\ ret = msg)

\* C2 as stated, on the ASCII texts: decrypt(encrypt(p)) = p for every
\* alphabetic-only p of even length without 'j' and without two equal
\* neighbours.
C2_RoundTripAsStated == (is_ascii(msg) /\ qualified_as_stated(msg)) => round_trip_exact

\* C2 amended: decrypt(encrypt(p)) = p for every p over the lowercase
\* letters 'a'..'z' without 'j', of even length, without two equal neighbours.
C2_RoundTripLowercase == qualified_lowercase(msg) => round_trip_exact

\* "cxic" under the default key came back from the round trip
C2_Witness ==
    /\ op = "decrypt_encrypted"
    /\ ~fault
    /\ seed = <<>>
    /\ msg = <<99, CharX, CharI, 99>>
    /\ arg # msg
    /\ ret = msg

\* the round trip of msg has returned the digraphs of msg, 'j' read as 'i'
round_trip_digraphs ==
    /\ (op = "encrypt" /\ arg = msg) => ~fault
    /\ op = "decrypt_encrypted" =>
           (~fault /\ ret = merge_j(concat_pairs(bigramify(msg).out)))

\* C3, on the ASCII texts: for every text p, decrypt(encrypt(p)) is the
\* concatenation of the digraphs of p with every 'j' replaced by 'i'.
C3_RoundTripDigraphs == is_ascii(msg) => round_trip_digraphs

\* no digraph of the segmentation holds the same symbol twice, 'j' read as 'i'
no_double_digraph(text) ==
    LET b == bigramify(text)
    IN  /\ ~b.fault
        /\ \A k \in 1..Len(b.out) : canonical(b.out[k][1]) # canonical(b.out[k][2])

\* Where the round trip of C3 does hold: on every ASCII text whose
\* segmentation holds no digraph of two equal symbols ('j' read as 'i').
RoundTripWithoutDoubleDigraph ==
    (is_ascii(msg) /\ no_double_digraph(msg)) => round_trip_digraphs

\* the call on msg gave what the same call gives on msg with 'j' as 'i'
same_as_merged ==
    /\ (op = "encrypt" /\ arg = msg) =>
           LET r == encrypt(matrix, merge_j(msg))
           IN  r.fault = fault /\ (~fault => r.out = ret)
    /\ (op = "decrypt" /\ arg = msg) =>
           LET r == decrypt(matrix, merge_j(msg))
           IN  r.fault = fault /\ (~fault => r.out = ret)

\* C5: for every text, replacing 'j' by 'i' changes neither the result of
\* encrypt nor that of decrypt.
C5_MergeOnTexts == same_as_merged

\* no 'i' stands next to a 'j' among the letters of the text
no_i_next_to_j(text) ==
    LET s == letters(text)
    IN  \A k \in 1..(Len(s) - 1) : ~({s[k], s[k + 1]} = {CharI, CharJ})

\* Where the merge of C5 does hold: on every text in which no 'i' stands next
\* to a 'j' once the non-letters are dropped.
MergeWithoutIJPair == no_i_next_to_j(msg) => same_as_merged

\* the layout as the spec names it: index n is at row n % 5, column n / 5
row_of(kw, c) == index_of(kw, canonical(c)) % Dim
column_of(kw, c) == index_of(kw, canonical(c)) \div Dim
grid(kw, row, column) == kw[Dim * column + row + 1]

\* the pair the rule gives with the cases tested same-column, same-row,
\* rectangle; step is 1 to encrypt and 4 to decrypt
pair_column_first(kw, a, b, step) ==
    IF column_of(kw, a) = column_of(kw, b)
    THEN <<grid(kw, (row_of(kw, a) + step) % Dim, column_of(kw, a)),
           grid(kw, (row_of(kw, b) + step) % Dim, column_of(kw, b))>>
    ELSE IF row_of(kw, a) = row_of(kw, b)
    THEN <<grid(kw, row_of(kw, a), (column_of(kw, a) + step) % Dim),
           grid(kw, row_of(kw, b), (column_of(kw, b) + step) % Dim)>>
    ELSE <<grid(kw, row_of(kw, b), column_of(kw, a)),
           grid(kw, row_of(kw, a), column_of(kw, b))>>

\* the same with the cases tested same-row, same-column, rectangle
pair_row_first(kw, a, b, step) ==
    IF row_of(kw, a) = row_of(kw, b)
    THEN <<grid(kw, row_of(kw, a), (column_of(kw, a) + step) % Dim),
           grid(kw, row_of(kw, b), (column_of(kw, b) + step) % Dim)>>
    ELSE IF column_of(kw, a) = column_of(kw, b)
    THEN <<grid(kw, (row_of(kw, a) + step) % Dim, column_of(kw, a)),
           grid(kw, (row_of(kw, b) + step) % Dim, column_of(kw, b))>>
    ELSE <<grid(kw, row_of(kw, b), column_of(kw, a)),
           grid(kw, row_of(kw, a), column_of(kw, b))>>

\* the digraphs of the last encrypt or decrypt whose symbols are in 'a'..'z'
latin_digraphs ==
    LET b == bigramify(arg).out
    IN  {k \in 1..Len(b) : b[k][1] \in 97..122 /\ b[k][2] \in 97..122}

\* C9 as stated: the cases are tested same-column, same-row, rectangle, so a
\* digraph with equal columns, two identical symbols included, goes to
\* ((row + 1) mod 5, column) on encryption and ((row + 4) mod 5, column) on
\* decryption.
C9_ColumnFirstAsStated ==
    (op \in {"encrypt", "decrypt", "decrypt_encrypted"} /\ ~fault) =>
        LET b == bigramify(arg).out
            step == IF op = "encrypt" THEN 1 ELSE 4
        IN  \A k \in latin_digraphs :
                <<ret[2 * k - 1], ret[2 * k]>> =
                    pair_column_first(keyword, b[k][1], b[k][2], step)

\* C9 amended: the cases are tested same-row, same-column, rectangle, so a
\* digraph with equal rows, two identical symbols included, goes to
\* (row, (column + 1) mod 5) on encryption and (row, (column + 4) mod 5) on
\* decryption; only digraphs with different rows and equal columns get the
\* row shift.
C9_RowFirst ==
    (op \in {"encrypt", "decrypt", "decrypt_encrypted"} /\ ~fault) =>
        LET b == bigramify(arg).out
            step == IF op = "encrypt" THEN 1 ELSE 4
        IN  \A k \in latin_digraphs :
                <<ret[2 * k - 1], ret[2 * k]>> =
                    pair_row_first(keyword, b[k][1], b[k][2], step)

\* encrypt("x") under the default key: ('x','x') at row 2, column 4 gives
\* the entry at row 2, column 0 twice, "cc"
C9_Witness ==
    /\ op = "encrypt"
    /\ ~fault
    /\ seed = <<>>
    /\ arg = <<CharX>>
    /\ ret = <<99, 99>>

====
